---- MODULE Spec2Model ----
(***************************************************************************)
(* Monthly seller analysis (src/src/monthly_analysis.py,                   *)
(* class MonthlySellerAnalyzer): windowed aggregation of orders per        *)
(* seller, tier classification, the monthly profile store, tier flow       *)
(* matrices, month-over-month / year-over-year comparison and trajectory   *)
(* classification.                                                         *)
(*                                                                         *)
(* Units.  Money is kept in cents (the code rounds sums to 2 decimals),    *)
(* ratings in hundredths of a star (the code rounds means to 2 decimals).  *)
(* A calendar month is the pair <<year, month>> that the string 'YYYY-MM'  *)
(* spells; a pandas Period('M') is its ordinal, an integer.                *)
(*                                                                         *)
(* Labels.  The code's labels for the comparison types and the trajectory  *)
(* types are Chinese strings; they are written here in English: "mom",     *)
(* "yoy", "continuous rise", "continuous decline", "frequent fluctuation", *)
(* "stable".                                                               *)
(***************************************************************************)
EXTENDS Integers, Sequences, FiniteSets, TLC

VARIABLES
    fn_in,              \* input of a function applied on its own; the data pipeline
    fn_prev,            \* the previous input/output pair of that function; the last build returns
    fn_out,             \* its output; the file last written
    raw_data,           \* self.raw_data: the loaded tables
    monthly_profiles,   \* self.monthly_profiles: month -> profile table
    result              \* what the last public operation returned

vars == <<fn_in, fn_prev, fn_out, raw_data, monthly_profiles, result>>

\* ------------------------------------------------------------------------
\* Small helpers
\* ------------------------------------------------------------------------

RECURSIVE SumOver(_, _)
\* Sum of f[x] over the finite set S.
SumOver(S, f) ==
    IF S = {} THEN 0
    ELSE LET x == CHOOSE y \in S : TRUE
         IN  f[x] + SumOver(S \ {x}, f)

RECURSIVE SumSeq(_)
SumSeq(s) == IF s = <<>> THEN 0 ELSE Head(s) + SumSeq(Tail(s))

\* a / b rounded to the nearest integer, ties to even (numpy's round), a >= 0, b > 0
RoundDiv(a, b) ==
    LET q == a \div b
        r == a % b
    IN  IF 2 * r < b THEN q
        ELSE IF 2 * r > b THEN q + 1
        ELSE IF q % 2 = 0 THEN q ELSE q + 1

Cents(x) == x * 100

\* Below, [x \in S |-> e] @@ <<>> is the function written out as the table of its
\* values: each value is computed once, when the table is made.

\* ------------------------------------------------------------------------
\* Calendar months: pd.Period(str), Period - n, str(Period)
\* ------------------------------------------------------------------------

\* pd.Period('YYYY-MM'): the month's ordinal
Period(ym) == ym[1] * 12 + (ym[2] - 1)

\* str(Period): back to <<year, month>>
PeriodStr(p) == <<p \div 12, (p % 12) + 1>>

\* str(target_period - n)
MonthMinus(ym, n) == PeriodStr(Period(ym) - n)

\* ------------------------------------------------------------------------
\* Tiers
\* ------------------------------------------------------------------------

\* tier_order in _compare_two_months and analyze_seller_trajectory
tier_order == [Basic |-> 0, Bronze |-> 1, Silver |-> 2, Gold |-> 3, Platinum |-> 4]

Tiers == DOMAIN tier_order

\* The keys of tier_definitions in insertion order (the order the dict is iterated)
TierKeys == <<"Platinum", "Gold", "Silver", "Bronze", "Basic">>

\* _get_tier_definitions: min_gmv in cents, min_rating in hundredths
tier_definitions ==
    [Platinum |-> [min_gmv |-> Cents(50000), min_orders |-> 200, min_rating |-> 400],
     Gold     |-> [min_gmv |-> Cents(10000), min_orders |-> 50,  min_rating |-> 350],
     Silver   |-> [min_gmv |-> Cents(2000),  min_orders |-> 10,  min_rating |-> 300],
     Bronze   |-> [min_gmv |-> Cents(500),   min_orders |-> 3,   min_rating |-> 250],
     Basic    |-> [min_gmv |-> 0,            min_orders |-> 1,   min_rating |-> 0]]

\* A variant of MeetsCriteria: strict comparison of the GMV
MeetsCriteriaStrict(row, criteria) ==
    /\ row.total_gmv > criteria.min_gmv
    /\ row.unique_orders >= criteria.min_orders
    /\ row.avg_review_score >= criteria.min_rating

\* A variant of MeetsCriteria: the rating comparison turned around
MeetsCriteriaFlipped(row, criteria) ==
    /\ row.total_gmv >= criteria.min_gmv
    /\ row.unique_orders >= criteria.min_orders
    /\ row.avg_review_score <= criteria.min_rating

\* The condition of the loop body of _classify_seller
MeetsCriteria(row, criteria) ==
    /\ row.total_gmv >= criteria.min_gmv
    /\ row.unique_orders >= criteria.min_orders
    /\ row.avg_review_score >= criteria.min_rating

RECURSIVE ClassifyFrom(_, _)
\* The for loop of _classify_seller from position i of the dict on
ClassifyFrom(row, i) ==
    IF i > Len(TierKeys) THEN "Basic"
    ELSE IF MeetsCriteria(row, tier_definitions[TierKeys[i]]) THEN TierKeys[i]
    ELSE ClassifyFrom(row, i + 1)

\* A variant of classify_seller: the dict walked from its last key to its first
ClassifyLowestFirst(row) ==
    IF \E i \in DOMAIN TierKeys : MeetsCriteria(row, tier_definitions[TierKeys[i]])
    THEN TierKeys[CHOOSE i \in DOMAIN TierKeys :
             /\ MeetsCriteria(row, tier_definitions[TierKeys[i]])
             /\ \A j \in DOMAIN TierKeys :
                    MeetsCriteria(row, tier_definitions[TierKeys[j]]) => j <= i]
    ELSE "Basic"

\* _classify_seller(row)
classify_seller(row) == ClassifyFrom(row, 1)

\* A variant of classify_seller_tier: Gold asks for a rating of 3.5
ClassifySellerTierGoldRated(row) ==
    IF row.total_gmv >= Cents(50000) /\ row.unique_orders >= 200 /\ row.avg_review_score >= 400
    THEN "Platinum"
    ELSE IF row.total_gmv >= Cents(10000) /\ row.unique_orders >= 50
            /\ row.avg_review_score >= 350
    THEN "Gold"
    ELSE IF row.total_gmv >= Cents(2000) /\ row.unique_orders >= 10 THEN "Silver"
    ELSE IF row.total_gmv >= Cents(500) /\ row.unique_orders >= 3 THEN "Bronze"
    ELSE "Basic"

\* classify_seller_tier(row) of the dashboard (dashboard/app.py), the same
\* cascade as BusinessAnalyzer._classify_seller_by_rules (src/analysis.py)
classify_seller_tier(row) ==
    IF row.total_gmv >= Cents(50000) /\ row.unique_orders >= 200 /\ row.avg_review_score >= 400
    THEN "Platinum"
    ELSE IF row.total_gmv >= Cents(10000) /\ row.unique_orders >= 50 THEN "Gold"
    ELSE IF row.total_gmv >= Cents(2000) /\ row.unique_orders >= 10 THEN "Silver"
    ELSE IF row.total_gmv >= Cents(500) /\ row.unique_orders >= 3 THEN "Bronze"
    ELSE "Basic"

\* ------------------------------------------------------------------------
\* The classifier as a pure function: inputs around every threshold
\* ------------------------------------------------------------------------

GmvInputs ==
    {0, Cents(100)} \cup
    UNION {{tier_definitions[t].min_gmv - 1, tier_definitions[t].min_gmv} : t \in Tiers \ {"Basic"}}
    \cup {Cents(60000)}

OrderInputs ==
    {0, 1} \cup
    UNION {{tier_definitions[t].min_orders - 1, tier_definitions[t].min_orders} : t \in Tiers \ {"Basic"}}
    \cup {250}

RatingInputs ==
    {0} \cup
    UNION {{tier_definitions[t].min_rating - 1, tier_definitions[t].min_rating} : t \in Tiers \ {"Basic"}}
    \cup {450, 500}

MetricsInputs ==
    [total_gmv : GmvInputs, unique_orders : OrderInputs, avg_review_score : RatingInputs]

NoCall == [row |-> <<>>, tier |-> "none"]

\* ------------------------------------------------------------------------
\* Raw data (the tables the data pipeline hands over)
\* ------------------------------------------------------------------------

\* The month the modelled data ends in, and the months orders may fall in:
\* the month itself, the month before and the same month one year before.
BaseMonth == <<2018, 1>>

OrderMonths == {MonthMinus(BaseMonth, k) : k \in {0, 1, 12}}

\* raw_data['sellers']: the seller ids, in table order
SellerTable == <<"s1", "s2">>

Sellers == {SellerTable[i] : i \in DOMAIN SellerTable}

\* The seller column of orders that have no row in order_items
NoItems == "none"

\* Groups of orders of one seller in one month: n orders of one item each, every
\* item at the same price (cents) and every order reviewed with the same score.
OrderKinds ==
    {[n |-> 3,  price |-> Cents(200), score |-> 4],
     [n |-> 50, price |-> Cents(250), score |-> 4]}

OrderGroups ==
    {[seller |-> s, year_month |-> m, n |-> k.n, price |-> k.price, score |-> k.score] :
        s \in Sellers, m \in OrderMonths, k \in OrderKinds}
    \cup
    {[seller |-> NoItems, year_month |-> m, n |-> 1, price |-> 0, score |-> 0] :
        m \in OrderMonths}

\* At most this many order groups in the orders table
MaxGroups == 2

RECURSIVE TablesUpTo(_)
\* The sets of at most k order groups with at most one group per seller and month
TablesUpTo(k) ==
    IF k = 0 THEN {{}}
    ELSE LET smaller == TablesUpTo(k - 1)
         IN  smaller \cup {T \cup {g} : T \in smaller, g \in OrderGroups}

OneGroupPerSellerMonth(T) ==
    \A a, b \in T : (a.seller = b.seller /\ a.year_month = b.year_month) => a = b

\* The orders tables the model is run on
OrderTables == {T \in TablesUpTo(MaxGroups) : OneGroupPerSellerMonth(T)}

\* get_available_months: the months that have an order
AvailableMonths(rd) == {g.year_month : g \in rd.orders}

\* No call is in progress: the caller has taken the last return value
NoResult == [op |-> "none", args |-> <<>>, raised |-> FALSE, value |-> <<>>]

\* Python's None, and the empty dict
None == [none |-> TRUE]

EmptyDict == <<>>

\* ------------------------------------------------------------------------
\* build_monthly_seller_profile
\* ------------------------------------------------------------------------

\* A variant of InWindow: the window's first month left out
InWindowOpenStart(year_month, start_period, target_period) ==
    /\ Period(year_month) > start_period
    /\ Period(year_month) <= target_period

\* The filter on year_month: start_period <= year_month <= target_period
InWindow(year_month, start_period, target_period) ==
    /\ Period(year_month) >= start_period
    /\ Period(year_month) <= target_period

\* orders_filtered: the orders of the window of target_month, with
\* start_period = target_period - lookback_months
OrdersFiltered(rd, target_month, lookback_months) ==
    {g \in rd.orders :
        InWindow(g.year_month, Period(target_month) - lookback_months, Period(target_month))}

\* orders_filtered merged with order_items (inner): the orders that have items
OrderDetails(orders_filtered) == {g \in orders_filtered : g.seller # NoItems}

\* A variant of RowOfSums: is_active from total_gmv >= 0
RowOfSumsActiveAtZero(gmv, orders, scores) ==
    [total_gmv        |-> gmv,
     unique_orders    |-> orders,
     avg_review_score |-> IF orders = 0 THEN 0 ELSE RoundDiv(100 * scores, orders),
     is_active        |-> IF gmv >= 0 THEN 1 ELSE 0,
     business_tier    |->
         classify_seller(
             [total_gmv        |-> gmv,
              unique_orders    |-> orders,
              avg_review_score |-> IF orders = 0 THEN 0 ELSE RoundDiv(100 * scores, orders)])]

\* The row of a seller from its sums: the mean review score rounded to 2
\* decimals, missing numbers filled with 0 (_clean_monthly_features), is_active,
\* and the tier _classify_seller gives the row
RowOfSums(gmv, orders, scores) ==
    [total_gmv        |-> gmv,
     unique_orders    |-> orders,
     avg_review_score |-> IF orders = 0 THEN 0 ELSE RoundDiv(100 * scores, orders),
     is_active        |-> IF gmv > 0 THEN 1 ELSE 0,
     business_tier    |->
         classify_seller(
             [total_gmv        |-> gmv,
              unique_orders    |-> orders,
              avg_review_score |-> IF orders = 0 THEN 0 ELSE RoundDiv(100 * scores, orders)])]

\* groupby('seller_id') of _calculate_monthly_sales_metrics and
\* _calculate_monthly_satisfaction_metrics over the seller's rows
RowOfGroups(mine) ==
    RowOfSums(SumOver(mine, [g \in mine |-> g.n * g.price]),
              SumOver(mine, [g \in mine |-> g.n]),
              SumOver(mine, [g \in mine |-> g.n * g.score]))

\* The metrics left-merged into the sellers table: the row of seller s
SellerRow(order_details, s) == RowOfGroups({g \in order_details : g.seller = s})

\* pd.DataFrame(): the empty table
EmptyFrame == [analysis_month |-> <<>>, lookback_months |-> 0, rows |-> <<>>]

\* The profile table over the orders of the window that have items
ProfileOfDetails(rd, target_month, lookback_months, order_details) ==
    [analysis_month  |-> target_month,
     lookback_months |-> lookback_months,
     rows            |-> [s \in {rd.sellers[i] : i \in DOMAIN rd.sellers} |->
                            SellerRow(order_details, s)] @@ <<>>]

\* The profile table build_monthly_seller_profile computes for a non-empty window
SellerProfile(rd, target_month, lookback_months) ==
    ProfileOfDetails(rd, target_month, lookback_months,
                     OrderDetails(OrdersFiltered(rd, target_month, lookback_months)))

\* A variant of OutcomeOfWindow: the test for an empty window left out
OutcomeOfWindowUnchecked(orders_filtered) ==
    IF OrderDetails(orders_filtered) = {} THEN "raise" ELSE "ok"

OutcomeOfWindow(orders_filtered) ==
    IF orders_filtered = {} THEN "empty"
    ELSE IF OrderDetails(orders_filtered) = {} THEN "raise"
    ELSE "ok"

\* What a call of build_monthly_seller_profile does: "empty" (the window has no
\* order: the empty table is returned, nothing stored), "raise" (no order of the
\* window has items: the metrics tables lack their columns and
\* _clean_monthly_features raises KeyError, nothing stored) or "ok" (the profile is
\* stored and returned)
BuildOutcome(rd, target_month, lookback_months) ==
    OutcomeOfWindow(OrdersFiltered(rd, target_month, lookback_months))

\* A variant of StoreWith: a month that has a profile keeps it
StoreWithKeep(store, target_month, profile) ==
    [m \in (DOMAIN store) \cup {target_month} |->
        IF m \in DOMAIN store THEN store[m] ELSE profile] @@ <<>>

\* self.monthly_profiles[target_month] = seller_profile
StoreWith(store, target_month, profile) ==
    [m \in (DOMAIN store) \cup {target_month} |->
        IF m = target_month THEN profile ELSE store[m]] @@ <<>>

\* self.monthly_profiles after the call
StoreAfterBuild(store, rd, target_month, lookback_months) ==
    IF BuildOutcome(rd, target_month, lookback_months) = "ok"
    THEN StoreWith(store, target_month, SellerProfile(rd, target_month, lookback_months))
    ELSE store

\* The months a caller asks for, and the lookbacks it passes
TargetMonths == OrderMonths

lookback_months_default == 3

Lookbacks == {1, lookback_months_default}

\* The return of build_monthly_seller_profile
BuildResult(target_month, lookback_months, outcome, store) ==
    [op     |-> "build_monthly_seller_profile",
     args   |-> <<target_month, lookback_months>>,
     raised |-> (outcome = "raise"),
     value  |-> IF outcome = "ok" THEN store[target_month] ELSE EmptyFrame]

\* build_monthly_seller_profile(target_month, lookback_months)
BuildMonthlySellerProfile(target_month, lookback_months) ==
    /\ result = NoResult
    /\ monthly_profiles' =
           StoreAfterBuild(monthly_profiles, raw_data, target_month, lookback_months)
    /\ result' = BuildResult(target_month, lookback_months,
                             BuildOutcome(raw_data, target_month, lookback_months),
                             monthly_profiles')
    /\ UNCHANGED <<raw_data, fn_in, fn_prev, fn_out>>

\* ------------------------------------------------------------------------
\* Flow matrices: pd.crosstab(origin, destination, margins=True)
\* ------------------------------------------------------------------------

\* The table of an empty cross-tabulation
EmptyMatrix == [index |-> {}, columns |-> {}, cell |-> <<>>,
                all_col |-> <<>>, all_row |-> <<>>, all_all |-> <<>>]

\* The counts of the pairs (row label, column label)
CrosstabCells(flow, index, columns) ==
    [c \in index \X columns |->
        Cardinality({i \in DOMAIN flow :
            flow[i].tier_from = c[1] /\ flow[i].tier_to = c[2]})] @@ <<>>

\* A variant of CrosstabOf: margins=True forgotten
CrosstabOfNoMargins(flow, index, columns) ==
    [index   |-> index,
     columns |-> columns,
     cell    |-> CrosstabCells(flow, index, columns),
     all_col |-> <<>>, all_row |-> <<>>, all_all |-> <<>>]

\* The cross-tabulation with the margins pandas computes from the data: the "All"
\* column by grouping on the row key, the "All" row by grouping on the column
\* key, the grand total as the number of rows
CrosstabOf(flow, index, columns) ==
    [index   |-> index,
     columns |-> columns,
     cell    |-> CrosstabCells(flow, index, columns),
     all_col |-> [o \in index |->
                    Cardinality({i \in DOMAIN flow : flow[i].tier_from = o})] @@ <<>>,
     all_row |-> [d \in columns |->
                    Cardinality({i \in DOMAIN flow : flow[i].tier_to = d})] @@ <<>>,
     all_all |-> <<Len(flow)>>]

\* pd.crosstab(flow.tier_from, flow.tier_to, margins=True) of a non-empty table of
\* rows [tier_from, tier_to]: one row / column per tier that occurs
Crosstab(flow) ==
    CrosstabOf(flow, {flow[i].tier_from : i \in DOMAIN flow},
                     {flow[i].tier_to : i \in DOMAIN flow})

\* ------------------------------------------------------------------------
\* _compare_two_months
\* ------------------------------------------------------------------------

\* The ids of a profile table, in table order
ProfileIds(rd, profile) ==
    SelectSeq(rd.sellers, LAMBDA s : s \in DOMAIN profile.rows)

\* The ids of df1.merge(df2, on='seller_id', how='inner'), in the order of df1
CommonIds(rd, profile1, profile2) ==
    SelectSeq(ProfileIds(rd, profile1), LAMBDA s : s \in DOMAIN profile2.rows)

\* A variant of TierChange: the difference taken the other way round
TierChangeReversed(tier1, tier2) == tier_order[tier2] - tier_order[tier1]

\* tier_change: tier_num of month1 (the target) minus tier_num of month2
TierChange(tier1, tier2) == tier_order[tier1] - tier_order[tier2]

MergedOfIds(ids, profile1, profile2) ==
    [i \in DOMAIN ids |->
        [seller_id   |-> ids[i],
         tier1       |-> profile1.rows[ids[i]].business_tier,
         tier2       |-> profile2.rows[ids[i]].business_tier,
         tier_change |-> TierChange(profile1.rows[ids[i]].business_tier,
                                    profile2.rows[ids[i]].business_tier)]] @@ <<>>

\* The merged table with its tier_change column: one row per seller of both tables
Merged(rd, profile1, profile2) ==
    MergedOfIds(CommonIds(rd, profile1, profile2), profile1, profile2)

\* A variant of FlowOfMerged: origin and destination exchanged
FlowOfMergedExchanged(merged) ==
    [i \in DOMAIN merged |->
        [tier_from |-> merged[i].tier1, tier_to |-> merged[i].tier2]] @@ <<>>

\* The two columns handed to pd.crosstab: rows business_tier of month2 (the
\* companion), columns business_tier of month1 (the target)
FlowOfMerged(merged) ==
    [i \in DOMAIN merged |->
        [tier_from |-> merged[i].tier2, tier_to |-> merged[i].tier1]] @@ <<>>

\* A variant of ComparisonOf: the rates not multiplied by 100
ComparisonOfUnitRates(merged, upgraded, downgraded, stable, month1, month2, comparison_type) ==
    [error              |-> FALSE,
     comparison_type    |-> comparison_type,
     month1             |-> month1,
     month2             |-> month2,
     summary_stats      |->
         [total_sellers    |-> Len(merged),
          upgraded_count   |-> Len(upgraded),
          downgraded_count |-> Len(downgraded),
          stable_count     |-> Len(stable),
          upgrade_rate     |-> <<Len(upgraded), Len(merged)>>,
          downgrade_rate   |-> <<Len(downgraded), Len(merged)>>,
          stability_rate   |-> <<Len(stable), Len(merged)>>],
     flow_matrix        |-> Crosstab(FlowOfMerged(merged)),
     upgraded_sellers   |-> upgraded,
     downgraded_sellers |-> downgraded,
     stable_sellers     |-> stable,
     merged_data        |-> merged]

\* The dict _compare_two_months returns for a non-empty merged table; the rates
\* are count / total * 100, kept as fractions <<numerator, denominator>>
ComparisonOf(merged, upgraded, downgraded, stable, month1, month2, comparison_type) ==
    [error              |-> FALSE,
     comparison_type    |-> comparison_type,
     month1             |-> month1,
     month2             |-> month2,
     summary_stats      |->
         [total_sellers    |-> Len(merged),
          upgraded_count   |-> Len(upgraded),
          downgraded_count |-> Len(downgraded),
          stable_count     |-> Len(stable),
          upgrade_rate     |-> <<Len(upgraded) * 100, Len(merged)>>,
          downgrade_rate   |-> <<Len(downgraded) * 100, Len(merged)>>,
          stability_rate   |-> <<Len(stable) * 100, Len(merged)>>],
     flow_matrix        |-> Crosstab(FlowOfMerged(merged)),
     upgraded_sellers   |-> upgraded,
     downgraded_sellers |-> downgraded,
     stable_sellers     |-> stable,
     merged_data        |-> merged]

\* A variant of CompareOfMerged: the unchanged sellers also taken as upgraded
CompareOfMergedNonStrict(merged, month1, month2, comparison_type) ==
    IF Len(merged) = 0 THEN [error |-> TRUE]
    ELSE ComparisonOf(merged,
                      SelectSeq(merged, LAMBDA r : r.tier_change >= 0),
                      SelectSeq(merged, LAMBDA r : r.tier_change < 0),
                      SelectSeq(merged, LAMBDA r : r.tier_change = 0),
                      month1, month2, comparison_type)

\* The three filters on tier_change and the dict returned; an empty merged table
\* gives the error dict
CompareOfMerged(merged, month1, month2, comparison_type) ==
    IF Len(merged) = 0 THEN [error |-> TRUE]
    ELSE ComparisonOf(merged,
                      SelectSeq(merged, LAMBDA r : r.tier_change > 0),
                      SelectSeq(merged, LAMBDA r : r.tier_change < 0),
                      SelectSeq(merged, LAMBDA r : r.tier_change = 0),
                      month1, month2, comparison_type)

\* _compare_two_months(month1, month2, comparison_type) on stored profiles
CompareTwoMonths(rd, store, month1, month2, comparison_type) ==
    CompareOfMerged(Merged(rd, store[month1], store[month2]),
                    month1, month2, comparison_type)

\* ------------------------------------------------------------------------
\* analyze_period_comparison
\* ------------------------------------------------------------------------

\* A variant of YoyMonth: eleven months back
YoyMonthOffByOne(target_month) == MonthMinus(target_month, 11)

\* mom_month = str(target_period - 1), yoy_month = str(target_period - 12)
MomMonth(target_month) == MonthMinus(target_month, 1)

YoyMonth(target_month) == MonthMinus(target_month, 12)

RECURSIVE BuildMissing(_, _, _, _)
\* The loop over months_to_build from position i on: a month that is available and
\* not stored is built with the default lookback.  [store, raised]: the store
\* when the loop ends, and whether a build raised (which ends the loop).
BuildMissing(rd, store, months, i) ==
    IF i > Len(months) THEN [store |-> store, raised |-> FALSE]
    ELSE IF months[i] \in AvailableMonths(rd) /\ months[i] \notin DOMAIN store
    THEN IF BuildOutcome(rd, months[i], lookback_months_default) = "raise"
         THEN [store |-> store, raised |-> TRUE]
         ELSE BuildMissing(rd,
                  StoreAfterBuild(store, rd, months[i], lookback_months_default),
                  months, i + 1)
    ELSE BuildMissing(rd, store, months, i + 1)

\* One half of the result: None when the companion month is not available or has
\* no profile; otherwise the comparison, which raises KeyError when the target
\* month has no stored profile.  [raised, value]
HalfComparison(rd, store, target_month, companion, comparison_type) ==
    IF companion \in AvailableMonths(rd) /\ companion \in DOMAIN store
    THEN IF target_month \in DOMAIN store
         THEN [raised |-> FALSE,
               value  |-> CompareTwoMonths(rd, store, target_month, companion, comparison_type)]
         ELSE [raised |-> TRUE, value |-> None]
    ELSE [raised |-> FALSE, value |-> None]

\* The return of analyze_period_comparison: every exception of the body is
\* caught and turned into the empty dict
PeriodComparisonResult(target_month, built, mom, yoy) ==
    [op     |-> "analyze_period_comparison",
     args   |-> <<target_month>>,
     raised |-> FALSE,
     value  |-> IF built.raised \/ mom.raised \/ yoy.raised
                THEN EmptyDict
                ELSE [target_month   |-> target_month,
                      mom_comparison |-> mom.value,
                      yoy_comparison |-> yoy.value]]

PeriodComparisonOfBuilt(rd, target_month, built) ==
    PeriodComparisonResult(target_month, built,
        HalfComparison(rd, built.store, target_month, MomMonth(target_month), "mom"),
        HalfComparison(rd, built.store, target_month, YoyMonth(target_month), "yoy"))

\* The profiles after the loop over months_to_build = [target, mom, yoy]
BuiltForComparison(rd, store, target_month) ==
    BuildMissing(rd, store,
                 <<target_month, MomMonth(target_month), YoyMonth(target_month)>>, 1)

\* analyze_period_comparison(target_month)
AnalyzePeriodComparison(target_month) ==
    /\ result = NoResult
    /\ \E built \in {BuiltForComparison(raw_data, monthly_profiles, target_month)} :
          /\ monthly_profiles' = built.store
          /\ result' = PeriodComparisonOfBuilt(raw_data, target_month, built)
    /\ UNCHANGED <<raw_data, fn_in, fn_prev, fn_out>>

\* ------------------------------------------------------------------------
\* analyze_tier_changes
\* ------------------------------------------------------------------------

RECURSIVE BuildAbsent(_, _, _, _)
\* The loop "if month not in self.monthly_profiles: build" from position i on,
\* with the default lookback.  A build of an empty window stores nothing; a build
\* that raises ends the loop and the operation.  [store, raised]
BuildAbsent(rd, store, months, i) ==
    IF i > Len(months) THEN [store |-> store, raised |-> FALSE]
    ELSE IF months[i] \notin DOMAIN store
    THEN IF BuildOutcome(rd, months[i], lookback_months_default) = "raise"
         THEN [store |-> store, raised |-> TRUE]
         ELSE BuildAbsent(rd,
                  StoreAfterBuild(store, rd, months[i], lookback_months_default),
                  months, i + 1)
    ELSE BuildAbsent(rd, store, months, i + 1)

\* The months of the list that have a stored profile, in list order with repeats:
\* one table per entry is appended to tier_changes / trajectory_data
StoredEntries(store, months) == SelectSeq(months, LAMBDA m : m \in DOMAIN store)

Occurrences(seq, x) == Cardinality({i \in DOMAIN seq : seq[i] = x})

\* pivot(index='seller_id', columns='month') raises ValueError when an
\* (id, month) pair occurs twice, which is when a stored month is listed twice
PivotRaises(entries) == \E i, j \in DOMAIN entries : i # j /\ entries[i] = entries[j]

RECURSIVE SortMonths(_)
\* The columns of the pivot table: the months in ascending (string = calendar) order
SortMonths(S) ==
    IF S = {} THEN <<>>
    ELSE LET m == CHOOSE x \in S : \A y \in S : Period(x) <= Period(y)
         IN  <<m>> \o SortMonths(S \ {m})

\* A variant of PivotColumns: the months in the order they are listed
PivotColumnsAsListed(entries) == entries

PivotColumns(entries) == SortMonths({entries[i] : i \in DOMAIN entries})

\* What pd.crosstab(..., margins=True) does with an empty table depends on the
\* pandas version: it returns an empty table or raises ValueError
CrosstabOfEmpty == {"empty", "raise"}

\* A variant of FlowMonths: the first two months of the list
FlowMonthsFirstTwo(months_list) == <<months_list[1], months_list[2]>>

\* month1, month2 = months_list[-2], months_list[-1]
FlowMonths(months_list) ==
    <<months_list[Len(months_list) - 1], months_list[Len(months_list)]>>

\* The join of df1 and df2 for ids that have k rows each
FlowRows(ids, k, profile1, profile2) ==
    [i \in 1..(Len(ids) * k) |->
        [seller_id |-> ids[((i - 1) % Len(ids)) + 1],
         tier_from |-> profile1.rows[ids[((i - 1) % Len(ids)) + 1]].business_tier,
         tier_to   |-> profile2.rows[ids[((i - 1) % Len(ids)) + 1]].business_tier]] @@ <<>>

\* df1 (the rows of month1) inner-joined with df2 (the rows of month2) on
\* seller_id.  A stored month listed k times has k rows per seller in
\* combined_df, so a seller has k1 * k2 rows in the join.
FlowOfMonths(rd, store, entries, month1, month2) ==
    IF Occurrences(entries, month1) > 0 /\ Occurrences(entries, month2) > 0
    THEN FlowRows(CommonIds(rd, store[month1], store[month2]),
                  Occurrences(entries, month1) * Occurrences(entries, month2),
                  store[month1], store[month2])
    ELSE <<>>

\* flow_df of _create_tier_flow_matrix
FlowDf(rd, store, entries, months_list) ==
    FlowOfMonths(rd, store, entries, FlowMonths(months_list)[1], FlowMonths(months_list)[2])

\* A variant of StabilityOfTier: total_sellers counts the sellers of every tier
StabilityOfTierAllSellers(ids, tierOf, ncols, t) ==
    [total_sellers  |-> Cardinality(ids),
     stable_sellers |-> Cardinality({s \in ids :
                            tierOf[s][1] = t /\ \A c \in 1..ncols : tierOf[s][c] = t}),
     stability_rate |-> <<Cardinality({s \in ids :
                            tierOf[s][1] = t /\ \A c \in 1..ncols : tierOf[s][c] = t}),
                          Cardinality(ids)>>]

\* The sellers whose tier in the first column is t, and those of them with the
\* same tier in every column
StabilityOfTier(ids, tierOf, ncols, t) ==
    [total_sellers  |-> Cardinality({s \in ids : tierOf[s][1] = t}),
     stable_sellers |-> Cardinality({s \in ids :
                            tierOf[s][1] = t /\ \A c \in 1..ncols : tierOf[s][c] = t}),
     stability_rate |-> <<Cardinality({s \in ids :
                            tierOf[s][1] = t /\ \A c \in 1..ncols : tierOf[s][c] = t}),
                          Cardinality({s \in ids : tierOf[s][1] = t})>>]

StabilityOfPivot(ids, tierOf, ncols) ==
    [t \in {tierOf[s][1] : s \in ids} |-> StabilityOfTier(ids, tierOf, ncols, t)] @@ <<>>

StabilityOfColumns(store, cols) ==
    StabilityOfPivot(DOMAIN store[cols[1]].rows,
        [s \in DOMAIN store[cols[1]].rows |->
            [c \in DOMAIN cols |-> store[cols[c]].rows[s].business_tier] @@ <<>>] @@ <<>>,
        Len(cols))

\* _calculate_tier_stability on a pivot table without duplicates: per tier that
\* some seller has in the first column (the earliest month), the sellers of that
\* tier and those of them with one tier in all columns
TierStability(store, entries) == StabilityOfColumns(store, PivotColumns(entries))

\* combined_df: the rows of the listed, stored months
MonthlyData(store, entries) ==
    [i \in DOMAIN entries |->
        [month |-> entries[i],
         rows  |-> [s \in DOMAIN store[entries[i]].rows |->
                      [business_tier |-> store[entries[i]].rows[s].business_tier,
                       total_gmv     |-> store[entries[i]].rows[s].total_gmv,
                       unique_orders |-> store[entries[i]].rows[s].unique_orders]] @@ <<>>]] @@ <<>>

\* _create_tier_flow_matrix
TierFlowMatrix(months_list, flow) ==
    IF Len(months_list) < 2 THEN EmptyFrame
    ELSE IF Len(flow) = 0 THEN EmptyMatrix
    ELSE Crosstab(flow)

TierChangesResult(months_list, raised, value) ==
    [op |-> "analyze_tier_changes", args |-> <<months_list>>,
     raised |-> raised, value |-> value]

\* analyze_tier_changes after the profiles are built
TierChangesOfEntries(months_list, built, entries, flow, crosstab_of_empty) ==
    IF built.raised THEN TierChangesResult(months_list, TRUE, None)
    ELSE IF Len(entries) = 0 THEN TierChangesResult(months_list, FALSE, EmptyFrame)
    ELSE IF Len(months_list) >= 2 /\ Len(flow) = 0 /\ crosstab_of_empty = "raise"
    THEN TierChangesResult(months_list, TRUE, None)
    ELSE IF PivotRaises(entries) THEN TierChangesResult(months_list, TRUE, None)
    ELSE TierChangesResult(months_list, FALSE,
             [monthly_data     |-> MonthlyData(built.store, entries),
              tier_flow_matrix |-> TierFlowMatrix(months_list, flow),
              tier_stability   |-> TierStability(built.store, entries)])

TierChangesOfBuilt(rd, months_list, built, entries, crosstab_of_empty) ==
    TierChangesOfEntries(months_list, built, entries,
        IF built.raised \/ Len(months_list) < 2 THEN <<>>
        ELSE FlowDf(rd, built.store, entries, months_list),
        crosstab_of_empty)

\* analyze_tier_changes(months_list)
AnalyzeTierChanges(months_list, crosstab_of_empty) ==
    /\ result = NoResult
    /\ \E built \in {BuildAbsent(raw_data, monthly_profiles, months_list, 1)} :
          /\ monthly_profiles' = built.store
          /\ result' = TierChangesOfBuilt(raw_data, months_list, built,
                           StoredEntries(built.store, months_list), crosstab_of_empty)
    /\ crosstab_of_empty = "raise" => result'.raised
    /\ UNCHANGED <<raw_data, fn_in, fn_prev, fn_out>>

\* The month lists a caller passes
MaxListLen == 3

MonthLists == UNION {[1..n -> TargetMonths] : n \in 1..MaxListLen}

\* ------------------------------------------------------------------------
\* analyze_seller_trajectory
\* ------------------------------------------------------------------------

\* numeric_tiers: tier_order.get(tier, 0) of each tier of the row
NumericTiers(path) ==
    [i \in DOMAIN path |->
        IF path[i] \in DOMAIN tier_order THEN tier_order[path[i]] ELSE 0] @@ <<>>

\* total_changes: the non-zero entries of np.diff(numeric_tiers)
TotalChanges(y) == Cardinality({i \in 1..(Len(y) - 1) : y[i + 1] - y[i] # 0})

\* A variant of SlopeOfSums: the numerator's terms exchanged
SlopeOfSumsExchanged(n, sx, sxx, sy, sxy) == <<sx * sy - n * sxy, n * sxx - sx * sx>>

\* The least-squares slope of y against 0..n-1 from the sums, as the fraction
\* <<numerator, denominator>> with a positive denominator
SlopeOfSums(n, sx, sxx, sy, sxy) == <<n * sxy - sx * sy, n * sxx - sx * sx>>

\* np.polyfit(range(n), numeric_tiers, 1)[0] if n > 1 else 0
Trend(y) ==
    IF Len(y) > 1
    THEN SlopeOfSums(Len(y),
                     SumSeq([i \in 1..Len(y) |-> i - 1]),
                     SumSeq([i \in 1..Len(y) |-> (i - 1) * (i - 1)]),
                     SumSeq(y),
                     SumSeq([i \in 1..Len(y) |-> (i - 1) * y[i]]))
    ELSE <<0, 1>>

\* The population variance from the sums, as a fraction
VarianceOfSums(n, sy, syy) == <<n * syy - sy * sy, n * n>>

\* np.std(numeric_tiers) squared if n > 1 else 0
Variance(y) ==
    IF Len(y) > 1
    THEN VarianceOfSums(Len(y), SumSeq(y), SumSeq([i \in 1..Len(y) |-> y[i] * y[i]]))
    ELSE <<0, 1>>

\* The slope is computed in floating point (a least-squares solve), so a slope
\* that is exactly 0.1 or -0.1 comes out just above (err = 1), just below
\* (err = -1) or exact (err = 0).
FloatErrors == {-1, 0, 1}

\* trend > 0.1 and trend < -0.1 on the computed slope
TrendAbove(trend, err) ==
    \/ 10 * trend[1] > trend[2]
    \/ 10 * trend[1] = trend[2] /\ err > 0

TrendBelow(trend, err) ==
    \/ 10 * trend[1] < 0 - trend[2]
    \/ 10 * trend[1] = 0 - trend[2] /\ err < 0

\* volatility > 0.5: the variance is above 0.25
VolatilityAbove(variance) == 4 * variance[1] > variance[2]

\* A variant of TrajectoryType: the volatility tested before the trend
TrajectoryTypeVolatilityFirst(trend, variance, err) ==
    IF VolatilityAbove(variance) THEN "frequent fluctuation"
    ELSE IF TrendAbove(trend, err) THEN "continuous rise"
    ELSE IF TrendBelow(trend, err) THEN "continuous decline"
    ELSE "stable"

\* The if / elif cascade that sets trajectory_type
TrajectoryType(trend, variance, err) ==
    IF TrendAbove(trend, err) THEN "continuous rise"
    ELSE IF TrendBelow(trend, err) THEN "continuous decline"
    ELSE IF VolatilityAbove(variance) THEN "frequent fluctuation"
    ELSE "stable"

TrajectoryTypes == {"continuous rise", "continuous decline", "frequent fluctuation", "stable"}

\* round(a / b, 3) in thousandths, b > 0, a of either sign
Round3(a, b) ==
    IF a >= 0 THEN RoundDiv(1000 * a, b) ELSE 0 - RoundDiv(1000 * (0 - a), b)

RECURSIVE SqrtSearch(_, _, _, _)
\* The largest k in lo..hi with (2k - 1)^2 * b <= 4 * a
SqrtSearch(a, b, lo, hi) ==
    IF lo >= hi THEN lo
    ELSE IF (2 * ((lo + hi + 1) \div 2) - 1) * (2 * ((lo + hi + 1) \div 2) - 1) * b <= 4 * a
    THEN SqrtSearch(a, b, (lo + hi + 1) \div 2, hi)
    ELSE SqrtSearch(a, b, lo, ((lo + hi + 1) \div 2) - 1)

\* round(sqrt(a / b), 3) in thousandths, for a / b <= 16
RoundSqrt3(a, b) == SqrtSearch(1000000 * a, b, 0, 4000)

\* The record appended to trajectory_analysis
RecordOf(path, y, trend, variance, err) ==
    [tier_path       |-> path,
     total_changes   |-> TotalChanges(y),
     volatility      |-> RoundSqrt3(variance[1], variance[2]),
     trend           |-> Round3(trend[1], trend[2]),
     trajectory_type |-> TrajectoryType(trend, variance, err),
     start_tier      |-> path[1],
     end_tier        |-> path[Len(path)],
     data_months     |-> Len(path)]

RecordOfNumeric(path, y, err) == RecordOf(path, y, Trend(y), Variance(y), err)

\* The body of the loop over valid_sellers: the record of one seller from the
\* tiers of its row (NaN dropped)
TrajectoryRecord(path, err) == RecordOfNumeric(path, NumericTiers(path), err)

SlopeAtTie(trend) == 10 * trend[1] = trend[2] \/ 10 * trend[1] = 0 - trend[2]

\* Whether the slope of the row is one the floating-point error decides
AtTie(path) == SlopeAtTie(Trend(NumericTiers(path)))

RowOfColumns(store, have, s) ==
    [i \in DOMAIN have |-> store[have[i]].rows[s].business_tier] @@ <<>>

\* The row of a seller in the pivot table, NaN dropped: its tiers in column order
PivotRow(store, cols, s) ==
    RowOfColumns(store, SelectSeq(cols, LAMBDA m : s \in DOMAIN store[m].rows), s)

min_months_default == 3

MinMonths == {2, min_months_default}

TrajectoryResult(months_list, min_months, raised, value) ==
    [op |-> "analyze_seller_trajectory", args |-> <<months_list, min_months>>,
     raised |-> raised, value |-> value]

\* trajectory_df, trajectory_summary (value_counts) and the dict returned
TrajectoryOfRecords(months_list, records) ==
    [error              |-> "",
     trajectory_data    |-> records,
     trajectory_summary |->
         [t \in {records[i].trajectory_type : i \in DOMAIN records} |->
             Cardinality({i \in DOMAIN records : records[i].trajectory_type = t})] @@ <<>>,
     months_analyzed    |-> months_list,
     total_sellers      |-> Len(records)]

\* The records of the valid sellers, each with its seller_id
RecordsOfRows(valid, rows, err) ==
    [i \in DOMAIN valid |->
        [f \in {"seller_id"} |-> valid[i]] @@ TrajectoryRecord(rows[i], err)] @@ <<>>

\* A variant of ValidSellers: more than min_months observations asked for
ValidSellersStrict(store, cols, index, min_months) ==
    SelectSeq(index, LAMBDA s : Len(PivotRow(store, cols, s)) > min_months)

\* The rows of the pivot table that dropna(thresh=min_months) keeps
ValidSellers(store, cols, index, min_months) ==
    SelectSeq(index, LAMBDA s : Len(PivotRow(store, cols, s)) >= min_months)

\* The index of the pivot table: the ids that occur in some listed profile
PivotIndex(rd, store, cols) ==
    SelectSeq(rd.sellers, LAMBDA s : \E i \in DOMAIN cols : s \in DOMAIN store[cols[i]].rows)

TrajectoryOfValid(months_list, min_months, store, cols, valid, err) ==
    IF Len(valid) = 0
    THEN TrajectoryResult(months_list, min_months, FALSE, [error |-> "no sellers"])
    ELSE TrajectoryResult(months_list, min_months, FALSE,
             TrajectoryOfRecords(months_list,
                 RecordsOfRows(valid,
                     [i \in DOMAIN valid |-> PivotRow(store, cols, valid[i])] @@ <<>>, err)))

TrajectoryOfColumns(rd, months_list, min_months, store, cols, err) ==
    TrajectoryOfValid(months_list, min_months, store, cols,
        ValidSellers(store, cols, PivotIndex(rd, store, cols), min_months), err)

\* analyze_seller_trajectory after the profiles are built
TrajectoryOfEntries(rd, months_list, min_months, built, entries, err) ==
    IF built.raised THEN TrajectoryResult(months_list, min_months, TRUE, None)
    ELSE IF Len(entries) < min_months
    THEN TrajectoryResult(months_list, min_months, FALSE, [error |-> "min_months"])
    ELSE IF PivotRaises(entries) THEN TrajectoryResult(months_list, min_months, TRUE, None)
    ELSE TrajectoryOfColumns(rd, months_list, min_months, built.store,
                             PivotColumns(entries), err)

\* Some record of the result has a slope the floating-point error decides
ResultAtTie(res) ==
    /\ ~res.raised
    /\ res.value.error = ""
    /\ \E i \in DOMAIN res.value.trajectory_data : AtTie(res.value.trajectory_data[i].tier_path)

\* analyze_seller_trajectory(months_list, min_months)
AnalyzeSellerTrajectory(months_list, min_months, err) ==
    /\ result = NoResult
    /\ err # 0 => Len(months_list) >= 4    \* shorter rows have no slope of 0.1
    /\ \E built \in {BuildAbsent(raw_data, monthly_profiles, months_list, 1)} :
          /\ monthly_profiles' = built.store
          /\ result' = TrajectoryOfEntries(raw_data, months_list, min_months, built,
                           StoredEntries(built.store, months_list), err)
    /\ err # 0 => ResultAtTie(result')
    /\ UNCHANGED <<raw_data, fn_in, fn_prev, fn_out>>

\* The caller takes the value (or the exception) the operation ended with; the
\* analyzer is used from one thread, so the next call starts after that
Return ==
    /\ result # NoResult
    /\ result' = NoResult
    /\ UNCHANGED <<raw_data, monthly_profiles, fn_in, fn_prev, fn_out>>

Init ==
    /\ raw_data \in [sellers : {SellerTable}, orders : OrderTables]
    /\ monthly_profiles = <<>>
    /\ result = NoResult
    /\ fn_in = <<>>
    /\ fn_prev = <<>>
    /\ fn_out = <<>>

Next ==
    \/ \E m \in TargetMonths, l \in Lookbacks : BuildMonthlySellerProfile(m, l)
    \/ \E m \in TargetMonths : AnalyzePeriodComparison(m)
    \/ \E months \in MonthLists, c \in CrosstabOfEmpty : AnalyzeTierChanges(months, c)
    \/ \E months \in MonthLists, k \in MinMonths, err \in FloatErrors :
           AnalyzeSellerTrajectory(months, k, err)
    \/ Return

Spec == Init /\ [][Next]_vars

\* ------------------------------------------------------------------------
\* The analyzer from its construction: raw_data is {} and is loaded on demand
\* from the data pipeline, whose load_raw_data raises or returns the tables
\* ------------------------------------------------------------------------

\* self.raw_data = {} of __init__
NoData == [sellers |-> <<>>, orders |-> {}]

\* A pipeline whose load_raw_data raises
PipelineRaises == [raises |-> TRUE]

Pipelines ==
    {PipelineRaises}
    \cup {[raises |-> FALSE, tables |-> t] : t \in [sellers : {SellerTable}, orders : OrderTables]}

\* self.raw_data after load_raw_data: the assignment is inside the try, so an
\* exception of the pipeline leaves raw_data as it was
AfterLoad(rd, pipeline) == IF pipeline.raises THEN rd ELSE pipeline.tables

\* "if not self.raw_data: self.load_raw_data()" and
\* "if 'orders' not in self.raw_data: self.load_raw_data()"
LazyLoaded(rd, pipeline) == IF rd = NoData THEN AfterLoad(rd, pipeline) ELSE rd

\* load_raw_data(): the tables, or {} when the pipeline raised
LoadRawData ==
    /\ result = NoResult
    /\ raw_data' = AfterLoad(raw_data, fn_in)
    /\ result' = [op     |-> "load_raw_data",
                  args   |-> <<>>,
                  raised |-> FALSE,
                  value  |-> IF fn_in.raises THEN EmptyDict ELSE raw_data']
    /\ UNCHANGED <<monthly_profiles, fn_in, fn_prev, fn_out>>

\* get_available_months(): the sorted months of the orders table, [] without one
GetAvailableMonths ==
    /\ result = NoResult
    /\ raw_data' = LazyLoaded(raw_data, fn_in)
    /\ result' = [op     |-> "get_available_months",
                  args   |-> <<>>,
                  raised |-> FALSE,
                  value  |-> IF raw_data' = NoData THEN <<>>
                             ELSE SortMonths(AvailableMonths(raw_data'))]
    /\ UNCHANGED <<monthly_profiles, fn_in, fn_prev, fn_out>>

\* build_monthly_seller_profile on an analyzer that may still have to load:
\* without tables self.raw_data['orders'] raises KeyError
BuildAfterLoad(target_month, lookback_months) ==
    /\ result = NoResult
    /\ raw_data' = LazyLoaded(raw_data, fn_in)
    /\ IF raw_data' = NoData
       THEN /\ monthly_profiles' = monthly_profiles
            /\ result' = [op     |-> "build_monthly_seller_profile",
                          args   |-> <<target_month, lookback_months>>,
                          raised |-> TRUE,
                          value  |-> EmptyFrame]
       ELSE /\ monthly_profiles' =
                   StoreAfterBuild(monthly_profiles, raw_data', target_month, lookback_months)
            /\ result' = BuildResult(target_month, lookback_months,
                                     BuildOutcome(raw_data', target_month, lookback_months),
                                     monthly_profiles')
    /\ UNCHANGED <<fn_in, fn_prev, fn_out>>

\* analyze_period_comparison on an analyzer that may still have to load:
\* get_available_months loads, and returns [] without tables
PeriodComparisonAfterLoad(target_month) ==
    /\ result = NoResult
    /\ raw_data' = LazyLoaded(raw_data, fn_in)
    /\ \E built \in {BuiltForComparison(raw_data', monthly_profiles, target_month)} :
          /\ monthly_profiles' = built.store
          /\ result' = PeriodComparisonOfBuilt(raw_data', target_month, built)
    /\ UNCHANGED <<fn_in, fn_prev, fn_out>>

InitLoad ==
    /\ fn_in \in Pipelines
    /\ raw_data = NoData
    /\ monthly_profiles = <<>>
    /\ result = NoResult
    /\ fn_prev = <<>>
    /\ fn_out = <<>>

NextLoad ==
    \/ LoadRawData
    \/ GetAvailableMonths
    \/ \E m \in TargetMonths, l \in Lookbacks : BuildAfterLoad(m, l)
    \/ \E m \in TargetMonths : PeriodComparisonAfterLoad(m)
    \/ Return

SpecLoad == InitLoad /\ [][NextLoad]_vars

\* ------------------------------------------------------------------------
\* _compare_two_months alone: applied to two stored profiles of the sellers
\* table, each seller with any tier in either month
\* ------------------------------------------------------------------------

\* The business_tier column of a profile
TierColumns == [Sellers -> Tiers]

\* A stored profile with that column (the metrics columns, which
\* _compare_two_months carries along and does not read, are left out)
ProfileOfTiers(month, tiers) ==
    [analysis_month  |-> month,
     lookback_months |-> lookback_months_default,
     rows            |-> [s \in Sellers |-> [business_tier |-> tiers[s]]]]

\* No comparison computed yet
NoComparison == [comparison_type |-> "none"]

InitCompare ==
    /\ fn_in \in [tiers1 : TierColumns, tiers2 : TierColumns]
    /\ fn_prev = <<>>
    /\ fn_out = NoComparison
    /\ raw_data = [sellers |-> SellerTable, orders |-> {}]
    /\ monthly_profiles =
           [m \in {BaseMonth, MomMonth(BaseMonth)} |->
               IF m = BaseMonth THEN ProfileOfTiers(m, fn_in.tiers1)
               ELSE ProfileOfTiers(m, fn_in.tiers2)]
    /\ result = NoResult

\* self._compare_two_months(target_month, mom_month, "mom")
CompareMonths ==
    /\ fn_out = NoComparison
    /\ fn_out' = CompareTwoMonths(raw_data, monthly_profiles,
                                  BaseMonth, MomMonth(BaseMonth), "mom")
    /\ UNCHANGED <<fn_in, fn_prev, raw_data, monthly_profiles, result>>

NextCompare == CompareMonths

SpecCompare == InitCompare /\ [][NextCompare]_vars

\* ------------------------------------------------------------------------
\* Building, summarising and saving: build_monthly_seller_profile,
\* get_monthly_summary and save_monthly_analysis on a loaded analyzer
\* ------------------------------------------------------------------------

\* The months asked for: the month the data ends in and the second month after
\* it, whose window reaches the data with a lookback of 3 and not with 1
SummaryMonths == {BaseMonth, MonthMinus(BaseMonth, 0 - 2)}

\* The summary dict over the rows of a profile and its active sellers; a mean is
\* the fraction <<sum, count>> (NaN when the count is 0)
SummaryOfActive(target_month, rows, active) ==
    [analysis_month     |-> target_month,
     total_sellers      |-> Cardinality(DOMAIN rows),
     active_sellers     |-> Cardinality(active),
     total_gmv          |-> SumOver(active, [s \in active |-> rows[s].total_gmv]),
     avg_gmv_per_seller |-> <<SumOver(active, [s \in active |-> rows[s].total_gmv]),
                              Cardinality(active)>>,
     total_orders       |-> SumOver(active, [s \in active |-> rows[s].unique_orders]),
     avg_rating         |-> <<SumOver(active, [s \in active |-> rows[s].avg_review_score]),
                              Cardinality(active)>>,
     tier_distribution  |->
         [t \in {rows[s].business_tier : s \in DOMAIN rows} |->
             Cardinality({s \in DOMAIN rows : rows[s].business_tier = t})] @@ <<>>]

\* active_sellers = df[df['is_active'] == 1]
SummaryOf(target_month, profile) ==
    SummaryOfActive(target_month, profile.rows,
                    {s \in DOMAIN profile.rows : profile.rows[s].is_active = 1})

\* get_monthly_summary(target_month): {} for a month without a stored profile
GetMonthlySummary(target_month) ==
    /\ result = NoResult
    /\ result' = [op     |-> "get_monthly_summary",
                  args   |-> <<target_month>>,
                  raised |-> FALSE,
                  value  |-> IF target_month \in DOMAIN monthly_profiles
                             THEN SummaryOf(target_month, monthly_profiles[target_month])
                             ELSE EmptyDict]
    /\ UNCHANGED <<raw_data, monthly_profiles, fn_in, fn_prev, fn_out>>

\* No file written
NoFile == [filepath |-> "none"]

\* save_monthly_analysis(target_month) with the default filepath, which names
\* the month: the stored table is written with to_csv; a month without a stored
\* profile writes nothing.  Returns None.
SaveMonthlyAnalysis(target_month) ==
    /\ result = NoResult
    /\ fn_out' = IF target_month \in DOMAIN monthly_profiles
                 THEN [filepath |-> target_month, table |-> monthly_profiles[target_month]]
                 ELSE NoFile
    /\ result' = [op     |-> "save_monthly_analysis",
                  args   |-> <<target_month>>,
                  raised |-> FALSE,
                  value  |-> None]
    /\ UNCHANGED <<raw_data, monthly_profiles, fn_in, fn_prev>>

\* build_monthly_seller_profile(target_month, lookback_months), with fn_prev
\* keeping, per month, the table the most recent build of the month returned
BuildAndKeepReturn(target_month, lookback_months) ==
    /\ result = NoResult
    /\ monthly_profiles' =
           StoreAfterBuild(monthly_profiles, raw_data, target_month, lookback_months)
    /\ result' = BuildResult(target_month, lookback_months,
                             BuildOutcome(raw_data, target_month, lookback_months),
                             monthly_profiles')
    /\ fn_prev' = IF result'.raised THEN fn_prev
                  ELSE StoreWith(fn_prev, target_month, result'.value)
    /\ UNCHANGED <<raw_data, fn_in, fn_out>>

InitSummary ==
    /\ raw_data \in [sellers : {SellerTable}, orders : OrderTables]
    /\ monthly_profiles = <<>>
    /\ result = NoResult
    /\ fn_in = <<>>
    /\ fn_prev = <<>>
    /\ fn_out = NoFile

NextSummary ==
    \/ \E m \in SummaryMonths, l \in Lookbacks : BuildAndKeepReturn(m, l)
    \/ \E m \in SummaryMonths : GetMonthlySummary(m)
    \/ \E m \in SummaryMonths : SaveMonthlyAnalysis(m)
    \/ Return

SpecSummary == InitSummary /\ [][NextSummary]_vars

\* ------------------------------------------------------------------------
\* The classifier alone: _classify_seller applied to rows around the thresholds
\* ------------------------------------------------------------------------

\* b is a with exactly one metric made larger
OneMetricLarger(a, b) ==
    \/ /\ b.total_gmv > a.total_gmv
       /\ b.unique_orders = a.unique_orders
       /\ b.avg_review_score = a.avg_review_score
    \/ /\ b.total_gmv = a.total_gmv
       /\ b.unique_orders > a.unique_orders
       /\ b.avg_review_score = a.avg_review_score
    \/ /\ b.total_gmv = a.total_gmv
       /\ b.unique_orders = a.unique_orders
       /\ b.avg_review_score > a.avg_review_score

InitClassify ==
    /\ fn_in \in MetricsInputs
    /\ fn_prev = NoCall
    /\ fn_out = "none"
    /\ raw_data = NoData
    /\ monthly_profiles = <<>>
    /\ result = NoResult

\* seller_profile.apply(self._classify_seller, axis=1) on one row
ClassifyRow ==
    /\ fn_out = "none"
    /\ fn_out' = classify_seller(fn_in)
    /\ UNCHANGED <<fn_in, fn_prev, raw_data, monthly_profiles, result>>

\* The next row: the row just classified with one metric made larger
LargerRow ==
    /\ fn_out # "none"
    /\ fn_prev = NoCall
    /\ fn_prev' = [row |-> fn_in, tier |-> fn_out]
    /\ fn_in' \in {b \in MetricsInputs : OneMetricLarger(fn_in, b)}
    /\ fn_out' = "none"
    /\ UNCHANGED <<raw_data, monthly_profiles, result>>

NextClassify == ClassifyRow \/ LargerRow

SpecClassify == InitClassify /\ [][NextClassify]_vars

\* ------------------------------------------------------------------------
\* The two classifiers side by side: the dashboard's classify_seller_tier and
\* the analyzer's _classify_seller applied to the same row
\* ------------------------------------------------------------------------

\* No row classified yet
NoTiers == [monthly |-> "none", dashboard |-> "none"]

InitClassifiers ==
    /\ fn_in \in MetricsInputs
    /\ fn_prev = NoCall
    /\ fn_out = NoTiers
    /\ raw_data = NoData
    /\ monthly_profiles = <<>>
    /\ result = NoResult

\* seller_profile.apply(classify_seller_tier, axis=1) and
\* seller_profile.apply(self._classify_seller, axis=1) on one row
ClassifyBoth ==
    /\ fn_out = NoTiers
    /\ fn_out' = [monthly |-> classify_seller(fn_in), dashboard |-> classify_seller_tier(fn_in)]
    /\ UNCHANGED <<fn_in, fn_prev, raw_data, monthly_profiles, result>>

NextClassifiers == ClassifyBoth

SpecClassifiers == InitClassifiers /\ [][NextClassifiers]_vars

\* ------------------------------------------------------------------------
\* The trajectory record alone: the loop body of analyze_seller_trajectory
\* applied to tier rows
\* ------------------------------------------------------------------------

\* The longest row of tiers
MaxPathLen == 4

TierPaths == UNION {[1..n -> Tiers] : n \in 1..MaxPathLen}

\* No record computed yet
NoRecord == [trajectory_type |-> "none"]

InitTrajectory ==
    /\ fn_in \in {x \in [path : TierPaths, err : FloatErrors] : x.err # 0 => AtTie(x.path)}
    /\ fn_prev = NoCall
    /\ fn_out = NoRecord
    /\ raw_data = NoData
    /\ monthly_profiles = <<>>
    /\ result = NoResult

TrajectoryOfRow ==
    /\ fn_out = NoRecord
    /\ fn_out' = TrajectoryRecord(fn_in.path, fn_in.err)
    /\ UNCHANGED <<fn_in, fn_prev, raw_data, monthly_profiles, result>>

NextTrajectory == TrajectoryOfRow

SpecTrajectory == InitTrajectory /\ [][NextTrajectory]_vars

\* ------------------------------------------------------------------------
\* Properties
\* ------------------------------------------------------------------------

\* The tiers above Basic with the minimums the classification table states:
\* GMV in cents, orders, rating in hundredths
StatedMinimums ==
    [Platinum |-> <<Cents(50000), 200, 400>>,
     Gold     |-> <<Cents(10000), 50,  350>>,
     Silver   |-> <<Cents(2000),  10,  300>>,
     Bronze   |-> <<Cents(500),   3,   250>>]

StatedTiersMet(row) ==
    {t \in DOMAIN StatedMinimums :
        /\ row.total_gmv >= StatedMinimums[t][1]
        /\ row.unique_orders >= StatedMinimums[t][2]
        /\ row.avg_review_score >= StatedMinimums[t][3]}

\* C1: for every metrics input the classifier returns the highest of Platinum,
\* Gold, Silver, Bronze whose three minimums are all met (>=), and Basic when
\* none is met (a seller with zero orders included); the result is one of the
\* five tiers.
C1_ClassifyHighestMet ==
    fn_out # "none" =>
        /\ fn_out \in Tiers
        /\ IF StatedTiersMet(fn_in) = {}
           THEN fn_out = "Basic"
           ELSE /\ fn_out \in StatedTiersMet(fn_in)
                /\ \A t \in StatedTiersMet(fn_in) : tier_order[t] <= tier_order[fn_out]

\* A seller with zero orders (whatever its other metrics) has been classified,
\* and a row on the exact Platinum minimums could be next
C1_Witness ==
    /\ fn_out = "Basic"
    /\ fn_in.unique_orders = 0
    /\ fn_in.total_gmv >= Cents(500)
    /\ fn_in.avg_review_score >= 250

\* C2: when a row differs from the row classified before only in one metric
\* being larger, its tier ranks at or above the tier of the row before.
C2_ClassifyMonotonic ==
    (fn_prev # NoCall /\ fn_out # "none" /\ OneMetricLarger(fn_prev.row, fn_in)) =>
        tier_order[fn_prev.tier] <= tier_order[fn_out]

\* A larger rating alone has lifted a seller from Bronze to Silver
C2_Witness ==
    /\ fn_prev # NoCall
    /\ fn_prev.tier = "Bronze"
    /\ fn_out = "Silver"
    /\ fn_in.avg_review_score > fn_prev.row.avg_review_score

\* The ranks of a row of tiers
RanksOf(path) == [i \in DOMAIN path |-> tier_order[path[i]]]

\* n^2 times the covariance sum and the squared-deviation sums of the ranks y
\* against the positions 0..n-1, from the deviations from the means
CenteredXY(y) ==
    SumSeq([i \in DOMAIN y |->
        (Len(y) * (i - 1) - SumSeq([j \in DOMAIN y |-> j - 1])) * (Len(y) * y[i] - SumSeq(y))])

CenteredXX(y) ==
    SumSeq([i \in DOMAIN y |->
        (Len(y) * (i - 1) - SumSeq([j \in DOMAIN y |-> j - 1]))
      * (Len(y) * (i - 1) - SumSeq([j \in DOMAIN y |-> j - 1]))])

CenteredYY(y) ==
    SumSeq([i \in DOMAIN y |-> (Len(y) * y[i] - SumSeq(y)) * (Len(y) * y[i] - SumSeq(y))])

\* The cascade on a slope sxy / sxx (0 when sxx = 0) and a variance
\* syy / n^3: above 0.1, below -0.1, standard deviation above 0.5, else stable
StatedType(sxy, sxx, syy, n, err) ==
    IF 10 * sxy > sxx \/ (sxx > 0 /\ 10 * sxy = sxx /\ err > 0)
    THEN "continuous rise"
    ELSE IF 10 * sxy < 0 - sxx \/ (sxx > 0 /\ 10 * sxy = 0 - sxx /\ err < 0)
    THEN "continuous decline"
    ELSE IF 4 * syy > n * n * n
    THEN "frequent fluctuation"
    ELSE "stable"

\* C9: the trajectory type of a row follows from the unrounded least-squares
\* slope and population standard deviation of its ranks by the cascade
\* slope > 0.1: continuous rise; else slope < -0.1: continuous decline; else
\* deviation > 0.5: frequent fluctuation; else stable.  It is one of the four.
C9_TrajectoryCascade ==
    fn_out # NoRecord =>
        /\ fn_out.trajectory_type \in TrajectoryTypes
        /\ fn_out.trajectory_type =
               StatedType(CenteredXY(RanksOf(fn_in.path)), CenteredXX(RanksOf(fn_in.path)),
                          CenteredYY(RanksOf(fn_in.path)), Len(fn_in.path), fn_in.err)

\* A row with a flat slope and a wide spread got "frequent fluctuation": the
\* third branch of the cascade
C9_Witness ==
    /\ fn_out # NoRecord
    /\ fn_out.trajectory_type = "frequent fluctuation"
    /\ fn_out.trend = 0
    /\ fn_out.volatility > 500

StrictlyIncreasing(y) == \A i \in 1..(Len(y) - 1) : y[i] < y[i + 1]

ConstantSeq(y) == \A i \in DOMAIN y : y[i] = y[1]

\* C10: a row of at least 3 months with strictly increasing ranks has a
\* trend > 0 and the type continuous rise; a row of constant rank has
\* volatility 0 and the type stable.
C10_TrajectorySanity ==
    fn_out # NoRecord =>
        /\ (Len(fn_in.path) >= 3 /\ StrictlyIncreasing(RanksOf(fn_in.path))) =>
               (fn_out.trend > 0 /\ fn_out.trajectory_type = "continuous rise")
        /\ ConstantSeq(RanksOf(fn_in.path)) =>
               (fn_out.volatility = 0 /\ fn_out.trajectory_type = "stable")

\* Basic, Bronze, Silver, Gold over four months: trend 1.0, volatility 1.118
C10_Witness ==
    /\ fn_out # NoRecord
    /\ fn_in.path = <<"Basic", "Bronze", "Silver", "Gold">>
    /\ fn_out.trend = 1000
    /\ fn_out.volatility = 1118
    /\ fn_out.trajectory_type = "continuous rise"

\* The number of calendar months from month a to month b
MonthsFromTo(a, b) == (b[1] - a[1]) * 12 + (b[2] - a[2])

\* The order groups of seller s bought from M - L to M, both months included
StatedWindowGroups(s, M, L) ==
    {g \in raw_data.orders :
        g.seller = s /\ MonthsFromTo(g.year_month, M) >= 0 /\ MonthsFromTo(g.year_month, M) <= L}

StatedWindowSums(rows, M, L) ==
    \A s \in DOMAIN rows :
        /\ rows[s].total_gmv =
               SumOver(StatedWindowGroups(s, M, L),
                       [g \in StatedWindowGroups(s, M, L) |-> g.n * g.price])
        /\ rows[s].unique_orders =
               SumOver(StatedWindowGroups(s, M, L),
                       [g \in StatedWindowGroups(s, M, L) |-> g.n])

StatedMonthBefore(ym) == IF ym[2] = 1 THEN <<ym[1] - 1, 12>> ELSE <<ym[1], ym[2] - 1>>

StatedYearBefore(ym) == <<ym[1] - 1, ym[2]>>

\* Whether the last call returned the dict of a period comparison with its keys
PeriodComparisonReturned ==
    /\ result.op = "analyze_period_comparison"
    /\ ~result.raised
    /\ result.value # EmptyDict

Populated(half) == half # None /\ ~half.error

\* The comparisons the last call returned, each with the target month and the
\* companion month the calendar gives
ReturnedComparisons ==
    IF PeriodComparisonReturned
    THEN {c \in {[cmp       |-> result.value.mom_comparison,
                  target    |-> result.args[1],
                  companion |-> StatedMonthBefore(result.args[1])],
                 [cmp       |-> result.value.yoy_comparison,
                  target    |-> result.args[1],
                  companion |-> StatedYearBefore(result.args[1])]} : Populated(c.cmp)}
    ELSE {}

\* Whether the last call returned a flow matrix of analyze_tier_changes
TierFlowReturned ==
    /\ result.op = "analyze_tier_changes"
    /\ ~result.raised
    /\ result.value # EmptyFrame
    /\ Len(result.args[1]) >= 2

\* The flow matrices the last call produced, each with its origin month and its
\* destination month
ProducedFlows ==
    {[matrix |-> c.cmp.flow_matrix, origin |-> c.companion, destination |-> c.target] :
        c \in ReturnedComparisons}
    \cup
    (IF TierFlowReturned
     THEN {[matrix      |-> result.value.tier_flow_matrix,
            origin      |-> result.args[1][Len(result.args[1]) - 1],
            destination |-> result.args[1][Len(result.args[1])]]}
     ELSE {})

\* The rows of the stored profile of a month; none when no profile is stored
RowsOfMonth(m) == IF m \in DOMAIN monthly_profiles THEN monthly_profiles[m].rows ELSE <<>>

\* The sellers that have a row in the profiles of both months
InBoth(a, b) == (DOMAIN RowsOfMonth(a)) \cap (DOMAIN RowsOfMonth(b))

\* A cell or margin of a cross-tabulation; a label that does not occur counts 0
CellAt(matrix, o, d) == IF <<o, d>> \in DOMAIN matrix.cell THEN matrix.cell[<<o, d>>] ELSE 0

RowAllAt(matrix, o) == IF o \in DOMAIN matrix.all_col THEN matrix.all_col[o] ELSE 0

ColumnAllAt(matrix, d) == IF d \in DOMAIN matrix.all_row THEN matrix.all_row[d] ELSE 0

GrandTotalAt(matrix) == IF 1 \in DOMAIN matrix.all_all THEN matrix.all_all[1] ELSE 0

\* C4: cell (o, d) of every flow matrix produced is the number of sellers with a
\* row in the profiles of both months that have tier o in the origin month and
\* tier d in the destination month; in a period comparison the origin is the
\* companion month and the destination is the target month.
C4_FlowCells ==
    \A f \in ProducedFlows : \A o \in Tiers, d \in Tiers :
        CellAt(f.matrix, o, d) =
            Cardinality({s \in InBoth(f.origin, f.destination) :
                /\ RowsOfMonth(f.origin)[s].business_tier = o
                /\ RowsOfMonth(f.destination)[s].business_tier = d})

\* A month-over-month comparison of 2018-01 in which one seller went from Basic
\* in 2017-12 to Bronze in 2018-01 and the other stayed Gold
C4_Witness ==
    /\ PeriodComparisonReturned
    /\ result.args[1] = <<2018, 1>>
    /\ Populated(result.value.mom_comparison)
    /\ CellAt(result.value.mom_comparison.flow_matrix, "Basic", "Bronze") = 1
    /\ CellAt(result.value.mom_comparison.flow_matrix, "Bronze", "Basic") = 0
    /\ CellAt(result.value.mom_comparison.flow_matrix, "Gold", "Gold") = 1

\* C5: in every flow matrix produced, the "All" margin of each row is the sum of
\* the row's tier cells, the "All" margin of each column is the sum of the
\* column's tier cells, and the grand total is the number of sellers with a row
\* in the profiles of both months.
C5_FlowMargins ==
    \A f \in ProducedFlows :
        /\ \A o \in Tiers :
               RowAllAt(f.matrix, o) = SumOver(Tiers, [d \in Tiers |-> CellAt(f.matrix, o, d)])
        /\ \A d \in Tiers :
               ColumnAllAt(f.matrix, d) = SumOver(Tiers, [o \in Tiers |-> CellAt(f.matrix, o, d)])
        /\ GrandTotalAt(f.matrix) = Cardinality(InBoth(f.origin, f.destination))

\* A matrix of analyze_tier_changes with two origin tiers, one seller each
C5_Witness ==
    /\ TierFlowReturned
    /\ GrandTotalAt(result.value.tier_flow_matrix) = 2
    /\ RowAllAt(result.value.tier_flow_matrix, "Bronze") = 1
    /\ RowAllAt(result.value.tier_flow_matrix, "Gold") = 1
    /\ ColumnAllAt(result.value.tier_flow_matrix, "Bronze") = 1
    /\ ColumnAllAt(result.value.tier_flow_matrix, "Gold") = 1

\* C6: every comparison analyze_period_comparison(M) returns has month1 = M; the
\* month2 of mom_comparison is the calendar month before M and the month2 of
\* yoy_comparison is the same month of the year before (2018-01 gives 2017-12
\* and 2017-01).
C6_CompanionMonths ==
    \A c \in ReturnedComparisons :
        /\ c.cmp.month1 = c.target
        /\ c.cmp.month2 = c.companion
        /\ c.cmp.comparison_type = "mom" => MonthsFromTo(c.cmp.month2, c.cmp.month1) = 1
        /\ c.cmp.comparison_type = "yoy" => MonthsFromTo(c.cmp.month2, c.cmp.month1) = 12

\* analyze_period_comparison("2018-01") with both halves populated, across the
\* year boundary
C6_Witness ==
    /\ PeriodComparisonReturned
    /\ result.args[1] = <<2018, 1>>
    /\ Populated(result.value.mom_comparison)
    /\ Populated(result.value.yoy_comparison)
    /\ result.value.mom_comparison.month2 = <<2017, 12>>
    /\ result.value.yoy_comparison.month2 = <<2017, 1>>

\* Whether a half is absent from what the call returned
HalfAbsent(key) ==
    \/ result.raised
    \/ result.value = EmptyDict
    \/ result.value[key] = None

\* C7: analyze_period_comparison(M) does not raise; mom_comparison is absent
\* exactly when M-1 is not an available month, and yoy_comparison is absent
\* exactly when M-12 is not an available month.
C7_AbsentIffUnavailable ==
    result.op = "analyze_period_comparison" =>
        /\ ~result.raised
        /\ HalfAbsent("mom_comparison") <=>
               StatedMonthBefore(result.args[1]) \notin AvailableMonths(raw_data)
        /\ HalfAbsent("yoy_comparison") <=>
               StatedYearBefore(result.args[1]) \notin AvailableMonths(raw_data)

\* The tier of seller s in the stored profile of month m
TierIn(m, s) == RowsOfMonth(m)[s].business_tier

SellersOf(rows) == {rows[i].seller_id : i \in DOMAIN rows}

\* C8: in every comparison returned, a seller is listed as upgraded iff its
\* tier ranks higher in the target month than in the companion month, as
\* downgraded iff lower, as stable iff equal; every common seller is in exactly
\* one list, and the three counts add up to total_sellers, the number of
\* common sellers.
C8_ChangePartition ==
    \A c \in ReturnedComparisons :
        /\ \A s \in InBoth(c.target, c.companion) :
              /\ s \in SellersOf(c.cmp.upgraded_sellers) <=>
                     tier_order[TierIn(c.target, s)] > tier_order[TierIn(c.companion, s)]
              /\ s \in SellersOf(c.cmp.downgraded_sellers) <=>
                     tier_order[TierIn(c.target, s)] < tier_order[TierIn(c.companion, s)]
              /\ s \in SellersOf(c.cmp.stable_sellers) <=>
                     tier_order[TierIn(c.target, s)] = tier_order[TierIn(c.companion, s)]
        /\ c.cmp.summary_stats.upgraded_count = Len(c.cmp.upgraded_sellers)
        /\ c.cmp.summary_stats.downgraded_count = Len(c.cmp.downgraded_sellers)
        /\ c.cmp.summary_stats.stable_count = Len(c.cmp.stable_sellers)
        /\ Len(c.cmp.upgraded_sellers) = Cardinality(SellersOf(c.cmp.upgraded_sellers))
        /\ Len(c.cmp.downgraded_sellers) = Cardinality(SellersOf(c.cmp.downgraded_sellers))
        /\ Len(c.cmp.stable_sellers) = Cardinality(SellersOf(c.cmp.stable_sellers))
        /\ c.cmp.summary_stats.upgraded_count + c.cmp.summary_stats.downgraded_count
               + c.cmp.summary_stats.stable_count = c.cmp.summary_stats.total_sellers
        /\ c.cmp.summary_stats.total_sellers = Cardinality(InBoth(c.target, c.companion))

\* A year-over-year comparison with one seller upgraded and one downgraded
C8_Witness ==
    /\ PeriodComparisonReturned
    /\ Populated(result.value.yoy_comparison)
    /\ result.value.yoy_comparison.summary_stats.upgraded_count = 1
    /\ result.value.yoy_comparison.summary_stats.downgraded_count = 1
    /\ result.value.yoy_comparison.summary_stats.stable_count = 0
    /\ result.value.yoy_comparison.summary_stats.total_sellers = 2

\* Whether the last call was analyze_seller_trajectory and returned
TrajectoryReturned ==
    /\ result.op = "analyze_seller_trajectory"
    /\ ~result.raised

\* The requested months in which seller s has a tier observation
ObservedMonths(months_list, s) ==
    {m \in {months_list[i] : i \in DOMAIN months_list} : s \in DOMAIN RowsOfMonth(m)}

\* The sellers observed in at least min_months of the requested months
Qualifying(months_list, min_months) ==
    {s \in Sellers : Cardinality(ObservedMonths(months_list, s)) >= min_months}

\* The records of a returned value; none when it is an error dict
RecordsOf(value) == IF value.error = "" THEN value.trajectory_data ELSE <<>>

SummaryTotal(value) ==
    SumOver(DOMAIN value.trajectory_summary, value.trajectory_summary)

TierChangesReturned ==
    /\ result.op = "analyze_tier_changes"
    /\ ~result.raised
    /\ result.value # EmptyFrame

\* The requested months that have a stored profile
ListedStored(months_list) ==
    {m \in {months_list[i] : i \in DOMAIN months_list} : m \in DOMAIN monthly_profiles}

\* The sellers with tier t in the stored profile of month m
SellersOfTier(m, t) == {s \in DOMAIN RowsOfMonth(m) : TierIn(m, s) = t}

\* The tiers reported are the tiers of month m, each with its number of sellers
TotalsAreOf(stability, m) ==
    \A t \in Tiers :
        /\ t \in DOMAIN stability <=> SellersOfTier(m, t) # {}
        /\ t \in DOMAIN stability =>
               stability[t].total_sellers = Cardinality(SellersOfTier(m, t))

\* C12: for every tier tier_stability reports, 0 <= stable_sellers <=
\* total_sellers, stability_rate is stable_sellers / total_sellers and lies in
\* [0, 1], and total_sellers is the number of sellers that have the tier in the
\* baseline month, one of the requested months.
C12_StabilityBounds ==
    TierChangesReturned =>
        /\ \A t \in DOMAIN result.value.tier_stability :
              /\ result.value.tier_stability[t].stable_sellers >= 0
              /\ result.value.tier_stability[t].stable_sellers
                     <= result.value.tier_stability[t].total_sellers
              /\ result.value.tier_stability[t].total_sellers > 0
              /\ result.value.tier_stability[t].stability_rate =
                     <<result.value.tier_stability[t].stable_sellers,
                       result.value.tier_stability[t].total_sellers>>
        /\ \E m \in ListedStored(result.args[1]) :
               TotalsAreOf(result.value.tier_stability, m)

\* Two months, both sellers Bronze in both: Bronze has 2 sellers, 2 of them stable
C12_Witness ==
    /\ TierChangesReturned
    /\ Cardinality(ListedStored(result.args[1])) = 2
    /\ "Bronze" \in DOMAIN result.value.tier_stability
    /\ result.value.tier_stability["Bronze"].total_sellers = 2
    /\ result.value.tier_stability["Bronze"].stable_sellers = 2

\* The first month of the sequence, in the order given, that has a profile
FirstListedStored(months_list) ==
    months_list[CHOOSE i \in DOMAIN months_list :
        /\ months_list[i] \in DOMAIN monthly_profiles
        /\ \A j \in 1..(i - 1) : months_list[j] \notin DOMAIN monthly_profiles]

\* The sellers of tier t in month m whose tier is t in every requested month
\* that has a profile
StableSellersOf(months_list, m, t) ==
    {s \in SellersOfTier(m, t) : \A k \in ListedStored(months_list) : TierIn(k, s) = t}

\* C13: tier_stability groups the sellers by their tier in the first month of
\* the sequence as the caller gave it, and counts as stable the sellers whose
\* tier is the same in every month of the sequence.
C13_StabilityFirstListed ==
    TierChangesReturned =>
        /\ TotalsAreOf(result.value.tier_stability, FirstListedStored(result.args[1]))
        /\ \A t \in DOMAIN result.value.tier_stability :
               result.value.tier_stability[t].stable_sellers =
                   Cardinality(StableSellersOf(result.args[1],
                                               FirstListedStored(result.args[1]), t))

\* What build_monthly_seller_profile(M, L) returns on an analyzer that has the
\* same raw data and no stored profile
FirstBuild(M, L) ==
    BuildResult(M, L, BuildOutcome(raw_data, M, L), StoreAfterBuild(<<>>, raw_data, M, L))

\* C14: whatever operations ran before it, a call build_monthly_seller_profile(M, L)
\* returns what the first such call on the same raw data returns: the same
\* sellers, metrics and tiers (or the same empty table, or the same exception).
C14_BuildRepeatable ==
    result.op = "build_monthly_seller_profile" =>
        result = FirstBuild(result.args[1], result.args[2])

\* build("2018-01", 1) returned a profile on an analyzer that holds profiles of
\* three months from earlier operations
C14_Witness ==
    /\ result.op = "build_monthly_seller_profile"
    /\ result.args = <<<<2018, 1>>, 1>>
    /\ result.value # EmptyFrame
    /\ Cardinality(DOMAIN monthly_profiles) = 3
    /\ \E s \in Sellers : result.value.rows[s].business_tier # "Basic"

\* C15: a stored profile is never rebuilt or replaced: a step leaves every
\* entry of the store as it is, and a build of a month that has an entry
\* returns that entry.
C15_StoredNeverReplaced ==
    [][\A m \in DOMAIN monthly_profiles :
          /\ m \in DOMAIN monthly_profiles'
          /\ monthly_profiles'[m] = monthly_profiles[m]
          /\ (result'.op = "build_monthly_seller_profile" /\ result'.args[1] = m
              /\ result # result')
                 => result'.value = monthly_profiles[m]]_vars

\* The orders, with or without items, bought from M - L to M
StatedWindowOrders(M, L) ==
    {g \in raw_data.orders :
        MonthsFromTo(g.year_month, M) >= 0 /\ MonthsFromTo(g.year_month, M) <= L}

\* C16: when no order at all was bought in the months M - L .. M,
\* build_monthly_seller_profile(M, L) returns an empty table and does not raise.
C16_EmptyWindowEmptyTable ==
    (result.op = "build_monthly_seller_profile"
     /\ StatedWindowOrders(result.args[1], result.args[2]) = {}) =>
        /\ ~result.raised
        /\ result.value = EmptyFrame

\* build("2017-12", 1) on data whose only orders are of 2018-01 and 2017-01
C16_Witness ==
    /\ result.op = "build_monthly_seller_profile"
    /\ result.args = <<<<2017, 12>>, 1>>
    /\ Cardinality(raw_data.orders) = 2
    /\ \E g \in raw_data.orders : g.year_month = <<2018, 1>>
    /\ \E g \in raw_data.orders : g.year_month = <<2017, 1>>
    /\ result.value = EmptyFrame
    /\ ~result.raised

\* Every order of the raw data has rows in order_items
AllOrdersHaveItems == \A g \in raw_data.orders : g.seller # NoItems

\* C17: for any list of months, months without orders in their window and
\* repeated months included, analyze_tier_changes and analyze_seller_trajectory
\* complete without raising.
C17_ListAnalyzersNeverRaise ==
    (AllOrdersHaveItems
     /\ result.op \in {"analyze_tier_changes", "analyze_seller_trajectory"}) =>
        ~result.raised

\* C18: when the raw tables cannot be loaded, load_raw_data,
\* get_available_months, build_monthly_seller_profile and
\* analyze_period_comparison each raise to their caller; none returns an empty
\* or default result.
C18_MissingDataRaises ==
    (fn_in = PipelineRaises
     /\ result.op \in {"load_raw_data", "get_available_months",
                       "build_monthly_seller_profile", "analyze_period_comparison"}) =>
        result.raised

\* Whether _compare_two_months has returned a comparison
ComparisonMade == fn_out # NoComparison /\ ~fn_out.error

\* The fraction rate is scale * count / total
RateIs(rate, scale, count, total) == rate[1] * total = scale * count * rate[2]

\* C19 (as the code has it): upgrade_rate and downgrade_rate are percentages:
\* upgrade_rate = upgraded_count / total_sellers * 100 and downgrade_rate =
\* downgraded_count / total_sellers * 100.
C19_RatesArePercentages ==
    ComparisonMade =>
        /\ RateIs(fn_out.summary_stats.upgrade_rate, 100,
                  fn_out.summary_stats.upgraded_count, fn_out.summary_stats.total_sellers)
        /\ RateIs(fn_out.summary_stats.downgrade_rate, 100,
                  fn_out.summary_stats.downgraded_count, fn_out.summary_stats.total_sellers)

\* C19 (as stated): upgrade_rate = upgraded_count / total_sellers and
\* downgrade_rate = downgraded_count / total_sellers, that is
\* rate * total_sellers = count.
C19_RatesAreFractions ==
    ComparisonMade =>
        /\ RateIs(fn_out.summary_stats.upgrade_rate, 1,
                  fn_out.summary_stats.upgraded_count, fn_out.summary_stats.total_sellers)
        /\ RateIs(fn_out.summary_stats.downgrade_rate, 1,
                  fn_out.summary_stats.downgraded_count, fn_out.summary_stats.total_sellers)

\* One of two sellers upgraded, the other downgraded: both rates are 50
C19_Witness ==
    /\ ComparisonMade
    /\ fn_out.summary_stats.total_sellers = 2
    /\ fn_out.summary_stats.upgraded_count = 1
    /\ fn_out.summary_stats.downgraded_count = 1
    /\ fn_out.summary_stats.upgrade_rate = <<100, 2>>
    /\ fn_out.summary_stats.downgrade_rate = <<100, 2>>

Magnitude(x) == IF x >= 0 THEN x ELSE 0 - x

LargestChangeFirst(rows) ==
    \A i \in 1..(Len(rows) - 1) :
        Magnitude(rows[i].tier_change) >= Magnitude(rows[i + 1].tier_change)

\* C20: in every comparison the upgraded_sellers list and the
\* downgraded_sellers list are each ordered by the magnitude of tier_change,
\* largest first.
C20_ListsLargestChangeFirst ==
    ComparisonMade =>
        /\ LargestChangeFirst(fn_out.upgraded_sellers)
        /\ LargestChangeFirst(fn_out.downgraded_sellers)

\* The sellers with a row in the stored profiles of both months that have tier o
\* in month a and tier d in month b
Movers(a, b, o, d) == {s \in InBoth(a, b) : TierIn(a, s) = o /\ TierIn(b, s) = d}

\* The matrix counts the moves from month a to month b
FlowIsBetween(matrix, a, b) ==
    /\ \A o \in Tiers, d \in Tiers : CellAt(matrix, o, d) = Cardinality(Movers(a, b, o, d))
    /\ GrandTotalAt(matrix) = Cardinality(InBoth(a, b))

\* C21: the tier_flow_matrix analyze_tier_changes(months) returns is the flow
\* between the last two entries of the list, the entry before the last as origin
\* and the last as destination, whatever the length of the list; for a list of
\* fewer than two months it is the empty table.
C21_FlowOfLastTwo ==
    TierChangesReturned =>
        IF Len(result.args[1]) < 2
        THEN result.value.tier_flow_matrix = EmptyFrame
        ELSE FlowIsBetween(result.value.tier_flow_matrix,
                           result.args[1][Len(result.args[1]) - 1],
                           result.args[1][Len(result.args[1])])

\* Three months listed; s1 was Bronze in the first and is Basic in the other two,
\* s2 is Gold in the last two: the matrix has Basic -> Basic and Gold -> Gold
C21_Witness ==
    /\ TierChangesReturned
    /\ Len(result.args[1]) = 3
    /\ ListedStored(result.args[1]) = {result.args[1][i] : i \in 1..3}
    /\ TierIn(result.args[1][1], "s1") = "Bronze"
    /\ CellAt(result.value.tier_flow_matrix, "Basic", "Basic") = 1
    /\ CellAt(result.value.tier_flow_matrix, "Gold", "Gold") = 1
    /\ CellAt(result.value.tier_flow_matrix, "Bronze", "Basic") = 0

\* C22: the profile build_monthly_seller_profile(M, L) returns gives every seller
\* the GMV and the order count of its orders bought in exactly L calendar
\* months, the target month counted: the months M - (L - 1) .. M (M = 2018-10
\* with L = 3: 2018-08, 2018-09 and 2018-10 only).
C22_WindowOfLMonths ==
    (result.op = "build_monthly_seller_profile" /\ ~result.raised /\ result.value # EmptyFrame) =>
        StatedWindowSums(result.value.rows, result.args[1], result.args[2] - 1)

\* Whether seller s has an order in the window of the stored profile of month m
HasWindowOrders(s, m) ==
    StatedWindowGroups(s, m, monthly_profiles[m].lookback_months) # {}

\* The sellers with orders in the window of exactly one of the two stored months
NewOrChurned(a, b) == {s \in Sellers : HasWindowOrders(s, a) # HasWindowOrders(s, b)}

\* C23: a seller with orders in the window of only one of the two compared
\* months is in none of the upgraded, downgraded and stable lists of the
\* comparison and not in its merged table, and the flow matrix of the two
\* months counts no such seller: its grand total is at most the number of the
\* other sellers.
C23_NewAndChurnedExcluded ==
    /\ \A c \in ReturnedComparisons :
           \A s \in NewOrChurned(c.target, c.companion) :
               /\ s \notin SellersOf(c.cmp.upgraded_sellers)
               /\ s \notin SellersOf(c.cmp.downgraded_sellers)
               /\ s \notin SellersOf(c.cmp.stable_sellers)
               /\ s \notin SellersOf(c.cmp.merged_data)
    /\ \A f \in ProducedFlows :
           ({f.origin, f.destination} \subseteq DOMAIN monthly_profiles) =>
               GrandTotalAt(f.matrix)
                   <= Cardinality(Sellers \ NewOrChurned(f.origin, f.destination))

\* The profile tables at hand: the stored ones and the one a build just returned
ProfilesAtHand ==
    {monthly_profiles[m] : m \in DOMAIN monthly_profiles}
    \cup (IF result.op = "build_monthly_seller_profile" /\ ~result.raised
             /\ result.value # EmptyFrame
          THEN {result.value} ELSE {})

\* C24: every non-empty profile has a row for each seller of the sellers table
\* and for no one else; a seller without an order in the profile's window has
\* total_gmv 0, unique_orders 0, avg_review_score 0, is_active 0 and tier
\* Basic; is_active is 1 exactly for the sellers with total_gmv > 0, else 0.
C24_ZeroFilledRows ==
    \A p \in ProfilesAtHand :
        /\ DOMAIN p.rows = {raw_data.sellers[i] : i \in DOMAIN raw_data.sellers}
        /\ \A s \in DOMAIN p.rows :
              /\ p.rows[s].is_active \in {0, 1}
              /\ p.rows[s].is_active = 1 <=> p.rows[s].total_gmv > 0
              /\ StatedWindowGroups(s, p.analysis_month, p.lookback_months) = {} =>
                    /\ p.rows[s].total_gmv = 0
                    /\ p.rows[s].unique_orders = 0
                    /\ p.rows[s].avg_review_score = 0
                    /\ p.rows[s].is_active = 0
                    /\ p.rows[s].business_tier = "Basic"

\* A build returned a profile in which s1 sold (Gold, active) and s2, whose only
\* orders are outside the window, has the zero row
C24_Witness ==
    /\ result.op = "build_monthly_seller_profile"
    /\ ~result.raised
    /\ result.value # EmptyFrame
    /\ result.value.rows["s1"].business_tier = "Gold"
    /\ result.value.rows["s1"].is_active = 1
    /\ \E g \in raw_data.orders : g.seller = "s2"
    /\ result.value.rows["s2"].total_gmv = 0
    /\ result.value.rows["s2"].is_active = 0
    /\ result.value.rows["s2"].business_tier = "Basic"

\* The tier the classification table gives a row: the highest tier whose stated
\* minimums the row meets, Basic when it meets none
StatedTier(row) ==
    IF StatedTiersMet(row) = {} THEN "Basic"
    ELSE CHOOSE t \in StatedTiersMet(row) :
             \A u \in StatedTiersMet(row) : tier_order[u] <= tier_order[t]

\* C25: after any sequence of operations, the tier stored for a seller in a
\* month is the classification of the metrics of that same stored row, and the
\* stored profile is the one a build of that month with that lookback gives on
\* an analyzer without any stored profile: it does not depend on which other
\* months were built before, nor on the seller's tier in any other month.
C25_TierFromOwnRow ==
    \A m \in DOMAIN monthly_profiles :
        /\ \A s \in DOMAIN monthly_profiles[m].rows :
               monthly_profiles[m].rows[s].business_tier =
                   StatedTier(monthly_profiles[m].rows[s])
        /\ monthly_profiles[m] =
               SellerProfile(raw_data, m, monthly_profiles[m].lookback_months)

\* Profiles of 2017-12 and 2018-01 are stored, and s1 is Bronze in the first
\* and Gold in the second
C25_Witness ==
    /\ {<<2017, 12>>, <<2018, 1>>} \subseteq DOMAIN monthly_profiles
    /\ TierIn(<<2017, 12>>, "s1") = "Bronze"
    /\ TierIn(<<2018, 1>>, "s1") = "Gold"
    /\ result.op \in {"analyze_tier_changes", "analyze_period_comparison"}

\* C26: for every row the dashboard's tier ranks at or above the monthly
\* analyzer's tier; the two are equal whenever the rating is at least 3.5 (so
\* they differ only by the rating requirement); and a row with GMV >= 10000,
\* orders >= 50 and a rating below 3.5 is Gold on the dashboard and not Gold in
\* the monthly analyzer.
C26_ClassifiersDifferByRating ==
    fn_out # NoTiers =>
        /\ tier_order[fn_out.dashboard] >= tier_order[fn_out.monthly]
        /\ fn_in.avg_review_score >= 350 => fn_out.dashboard = fn_out.monthly
        /\ (fn_in.total_gmv >= Cents(10000) /\ fn_in.unique_orders >= 50
            /\ fn_in.avg_review_score < 350) =>
               (fn_out.dashboard = "Gold" /\ fn_out.monthly # "Gold")

\* GMV 10000, 50 orders, rating 3.49: Gold on the dashboard, Silver in the
\* monthly analyzer
C26_Witness ==
    /\ fn_in = [total_gmv |-> Cents(10000), unique_orders |-> 50, avg_review_score |-> 349]
    /\ fn_out = [monthly |-> "Silver", dashboard |-> "Gold"]

\* The position of month m among the months S in calendar order
CalendarRank(S, m) == 1 + Cardinality({k \in S : MonthsFromTo(k, m) > 0})

\* The path holds, in calendar order, the tier of seller s in each requested
\* month in which s is observed, and nothing else
PathIsCalendarOrdered(path, months_list, s) ==
    /\ Len(path) = Cardinality(ObservedMonths(months_list, s))
    /\ \A m \in ObservedMonths(months_list, s) :
           path[CalendarRank(ObservedMonths(months_list, s), m)] = TierIn(m, s)

\* The consecutive pairs of the path whose ranks differ
RankChanges(path) ==
    {i \in 1..(Len(path) - 1) : tier_order[path[i]] # tier_order[path[i + 1]]}

\* C27: in each trajectory record the tier sequence lists the seller's
\* observed tiers in calendar month order, also when the months are listed out
\* of order, months without an observation skipped; total_changes is the
\* number of consecutive pairs of the sequence whose ranks differ, so
\* 0 <= total_changes <= data_months - 1; start_tier and end_tier are the first
\* and the last element of the sequence.
C27_PathInCalendarOrder ==
    TrajectoryReturned =>
        \A i \in DOMAIN RecordsOf(result.value) :
            /\ PathIsCalendarOrdered(RecordsOf(result.value)[i].tier_path, result.args[1],
                                     RecordsOf(result.value)[i].seller_id)
            /\ RecordsOf(result.value)[i].data_months =
                   Len(RecordsOf(result.value)[i].tier_path)
            /\ RecordsOf(result.value)[i].total_changes =
                   Cardinality(RankChanges(RecordsOf(result.value)[i].tier_path))
            /\ RecordsOf(result.value)[i].total_changes >= 0
            /\ RecordsOf(result.value)[i].total_changes
                   <= RecordsOf(result.value)[i].data_months - 1
            /\ RecordsOf(result.value)[i].start_tier = RecordsOf(result.value)[i].tier_path[1]
            /\ RecordsOf(result.value)[i].end_tier =
                   RecordsOf(result.value)[i].tier_path[
                       Len(RecordsOf(result.value)[i].tier_path)]

\* The months listed as 2018-01, 2017-01: a seller that was Bronze in 2017-01
\* and is Basic in 2018-01 has the sequence Bronze, Basic and one change
C27_Witness ==
    /\ TrajectoryReturned
    /\ result.args[1] = <<<<2018, 1>>, <<2017, 1>>>>
    /\ \E i \in DOMAIN RecordsOf(result.value) :
           /\ RecordsOf(result.value)[i].tier_path = <<"Bronze", "Basic">>
           /\ RecordsOf(result.value)[i].total_changes = 1
           /\ RecordsOf(result.value)[i].start_tier = "Bronze"
           /\ RecordsOf(result.value)[i].end_tier = "Basic"

\* C28: in every comparison analyze_period_comparison returns, whatever builds
\* came before, the profile of the target month and the profile of the
\* companion month that were compared were built with the same lookback_months.
C28_ComparedLookbacksEqual ==
    \A c \in ReturnedComparisons :
        monthly_profiles[c.target].lookback_months =
            monthly_profiles[c.companion].lookback_months

\* The table the most recent build of month m returned; the empty table when
\* no build of m has returned
LastBuilt(m) == IF m \in DOMAIN fn_prev THEN fn_prev[m] ELSE EmptyFrame

\* C29: whenever build_monthly_seller_profile(M, L) returns, the table held for
\* M in monthly_profiles is the table just returned (no table when the empty
\* table was returned); so get_monthly_summary(M) describes the profile of the
\* most recent build of M, and save_monthly_analysis(M) writes it, and both
\* report nothing when that build was empty.
C29_StoreHoldsLastBuild ==
    /\ (result.op = "build_monthly_seller_profile" /\ ~result.raised) =>
           IF result.value = EmptyFrame
           THEN result.args[1] \notin DOMAIN monthly_profiles
           ELSE /\ result.args[1] \in DOMAIN monthly_profiles
                /\ monthly_profiles[result.args[1]] = result.value
    /\ result.op = "get_monthly_summary" =>
           result.value = IF LastBuilt(result.args[1]) = EmptyFrame THEN EmptyDict
                          ELSE SummaryOf(result.args[1], LastBuilt(result.args[1]))
    /\ result.op = "save_monthly_analysis" =>
           fn_out = IF LastBuilt(result.args[1]) = EmptyFrame THEN NoFile
                    ELSE [filepath |-> result.args[1], table |-> LastBuilt(result.args[1])]

\* The pairs (origin tier, destination tier) with the destination ranked
\* above, below and level with the origin
RisingPairs == {c \in Tiers \X Tiers : tier_order[c[2]] > tier_order[c[1]]}

FallingPairs == {c \in Tiers \X Tiers : tier_order[c[2]] < tier_order[c[1]]}

LevelPairs == {c \in Tiers \X Tiers : c[2] = c[1]}

\* The sum of the cells of the matrix at the pairs
CellSum(matrix, pairs) == SumOver(pairs, [c \in pairs |-> CellAt(matrix, c[1], c[2])])

\* C30: in every comparison the summary statistics agree with the flow matrix
\* of the same comparison: upgraded_count is the sum of the cells whose
\* destination tier ranks above the origin tier, downgraded_count the sum of
\* the cells whose destination ranks below, stable_count the sum of the
\* diagonal cells, and total_sellers the grand total.
C30_SummaryAgreesWithMatrix ==
    ComparisonMade =>
        /\ fn_out.summary_stats.upgraded_count = CellSum(fn_out.flow_matrix, RisingPairs)
        /\ fn_out.summary_stats.downgraded_count = CellSum(fn_out.flow_matrix, FallingPairs)
        /\ fn_out.summary_stats.stable_count = CellSum(fn_out.flow_matrix, LevelPairs)
        /\ fn_out.summary_stats.total_sellers = GrandTotalAt(fn_out.flow_matrix)

\* One seller went from Basic to Gold and the other stayed Silver
C30_Witness ==
    /\ ComparisonMade
    /\ fn_out.summary_stats.upgraded_count = 1
    /\ fn_out.summary_stats.stable_count = 1
    /\ fn_out.summary_stats.downgraded_count = 0
    /\ CellAt(fn_out.flow_matrix, "Basic", "Gold") = 1
    /\ CellAt(fn_out.flow_matrix, "Silver", "Silver") = 1
    /\ GrandTotalAt(fn_out.flow_matrix) = 2

====
